---- MODULE Spec2Model ----
(***************************************************************************)
(* GeoScattering (karateclub/graph_embedding/geoscattering.py): the        *)
(* whole-graph embedding built from dyadic wavelets of the normalized      *)
(* adjacency operator, applied to three node features and summarised by    *)
(* moments.  The estimator object (order, moments, _embedding) is the      *)
(* state; fit is stepped one graph of the batch at a time.                 *)
(*                                                                         *)
(* Numbers are exact rationals in lowest terms (the power of two of the    *)
(* denominator kept as an exponent); vectors and matrices are functions over *)
(* the node index range 0..n-1; numpy arrays are records of a shape and    *)
(* the row-major data.                                                     *)
(***************************************************************************)
EXTENDS Integers, Sequences, FiniteSets

\* ------------------------------------------------------------ bounds ----
\* Largest order / moments the constructor is called with in Spec.
MaxOrder == 1
MaxMoments == 2
\* Largest number of graphs handed to one fit call.
MaxBatch == 2
\* Largest order / moments in SpecBlocks.
MaxBlockOrder == 3
MaxBlockMoments == 3

\* ------------------------------------------------- exact arithmetic ----
\* The number n / (r * 2^e) is <<n, r, e>>, in lowest terms: r is odd and
\* positive, gcd(n, r) = 1, and n is odd unless e = 0.
Abs(i) == IF i < 0 THEN -i ELSE i

RECURSIVE GCD(_, _)
GCD(a, b) == IF b = 0 THEN a ELSE GCD(b, a % b)

RECURSIVE Pow2(_)
Pow2(k) == IF k = 0 THEN 1 ELSE 2 * Pow2(k - 1)

RECURSIVE StripTwos(_, _, _)
StripTwos(n, r, e) ==
  IF e > 0 /\ n % 2 = 0 THEN StripTwos(n \div 2, r, e - 1) ELSE <<n, r, e>>

Norm(n, r, e) ==
  IF n = 0 THEN <<0, 1, 0>>
  ELSE LET g == GCD(Abs(n), r) IN StripTwos(n \div g, r \div g, e)

Rat(i) == <<i, 1, 0>>
Zero == Rat(0)
One == Rat(1)
Half == <<1, 1, 1>>

Max(a, b) == IF a > b THEN a ELSE b

RAdd(a, b) ==
  LET e == Max(a[3], b[3])
      l == (a[2] \div GCD(a[2], b[2])) * b[2]
  IN Norm(a[1] * Pow2(e - a[3]) * (l \div a[2])
          + b[1] * Pow2(e - b[3]) * (l \div b[2]), l, e)

RNeg(a) == <<-a[1], a[2], a[3]>>

RSub(a, b) == RAdd(a, RNeg(b))

RMul(a, b) ==
  IF a[1] = 0 \/ b[1] = 0 THEN Zero
  ELSE LET g1 == GCD(Abs(a[1]), b[2])
           g2 == GCD(Abs(b[1]), a[2])
       IN StripTwos((a[1] \div g1) * (b[1] \div g2),
                    (a[2] \div g2) * (b[2] \div g1), a[3] + b[3])

\* 1.0/d for an integer d > 0.
RECURSIVE RInv(_)
RInv(d) ==
  IF d % 2 = 0 THEN LET h == RInv(d \div 2) IN <<1, h[2], h[3] + 1>>
  ELSE <<1, d, 0>>

\* np.abs on one entry.
RAbs(a) == <<Abs(a[1]), a[2], a[3]>>

\* np.power on one entry, integer exponent k >= 0.
RECURSIVE RPow(_, _)
RPow(a, k) == IF k = 0 THEN One ELSE RMul(a, RPow(a, k - 1))

\* Sum of f[i] for i in lo..hi (empty sum = 0).
RECURSIVE RSum(_, _, _)
RSum(f, lo, hi) == IF lo > hi THEN Zero ELSE RAdd(f[lo], RSum(f, lo + 1, hi))

\* ---------------------------------------------------- numpy arrays ----
\* np.array(features).reshape(1, -1) of a Python list of scalars.
Reshape1(list) == [shape |-> <<1, Len(list)>>, data |-> list]

\* np.concatenate([a, b, c], axis=1) of three arrays of shape (1, k).
Concatenate1(a, b, c) ==
  [shape |-> <<1, a.shape[2] + b.shape[2] + c.shape[2]>>,
   data |-> a.data \o b.data \o c.data]

RECURSIVE FlatData(_)
FlatData(list) ==
  IF list = <<>> THEN <<>> ELSE Head(list).data \o FlatData(Tail(list))

\* np.array(list) of a Python list of equally shaped arrays: the arrays are
\* stacked along a new leading axis; the empty list gives shape (0,).
EmptyArray == [shape |-> <<0>>, data |-> <<>>]

NpArray(list) ==
  IF list = <<>> THEN EmptyArray
  ELSE [shape |-> <<Len(list)>> \o list[1].shape, data |-> FlatData(list)]

\* ---------------------------------------------------------- graphs ----
\* A networkx graph with nodes 0..n-1: [n |-> n, edges |-> set of {u, v}].
Nodes(graph) == 0 .. (graph.n - 1)

\* graph.degree[node]
Degree(graph, node) == Cardinality({e \in graph.edges : node \in e})

Neighbors(graph, node) == {v \in Nodes(graph) : {node, v} \in graph.edges}

\* nx.adjacency_matrix(graph, nodelist=range(n))
Adjacency(graph) ==
  [i \in Nodes(graph) |-> [j \in Nodes(graph) |->
     IF {i, j} \in graph.edges THEN One ELSE Zero]]

\* sparse.identity(n)
Identity(n) ==
  [i \in 0 .. (n - 1) |-> [j \in 0 .. (n - 1) |-> IF i = j THEN One ELSE Zero]]

\* The nodes within k hops of node (single-source shortest path lengths).
RECURSIVE Ball(_, _, _)
Ball(graph, node, k) ==
  IF k = 0 THEN {node}
  ELSE LET b == Ball(graph, node, k - 1)
       IN b \cup {v \in Nodes(graph) : \E u \in b : {u, v} \in graph.edges}

\* nx.eccentricity(graph, node) raises NetworkXError when some node is not
\* reached from node.
EccentricityRaises(graph) ==
  \E node \in Nodes(graph) : Ball(graph, node, graph.n) /= Nodes(graph)

\* nx.eccentricity(graph, node) on a connected graph.
Eccentricity(graph, node) ==
  CHOOSE k \in 0 .. graph.n :
    /\ Ball(graph, node, k) = Nodes(graph)
    /\ \A j \in 0 .. (k - 1) : Ball(graph, node, j) /= Nodes(graph)

\* nx.clustering(graph, node): triangles through node over pairs of neighbours.
Clustering(graph, node) ==
  LET nb == Neighbors(graph, node)
      d == Cardinality(nb)
      closed == Cardinality({e \in graph.edges : e \subseteq nb})
  IN IF d < 2 THEN Zero ELSE RMul(Rat(2 * closed), RInv(d * (d - 1)))

\* math.log(d + 1) for a degree d, rounded to the nearest eighth
\* (log 1 = 0, log 2 = 0.69, log 3 = 1.10, log 4 = 1.39, log 5 = 1.61).
Log(x) ==
  CASE x = 1 -> Zero
    [] x = 2 -> <<3, 1, 2>>
    [] x = 3 -> <<9, 1, 3>>
    [] x = 4 -> <<11, 1, 3>>
    [] OTHER -> <<13, 1, 3>>

\* ------------------------------------------------- linear algebra ----
Size(v) == Cardinality(DOMAIN v)

\* Sparse matrix product A.dot(B) of two n x n matrices.
MatMul(A, B) ==
  [i \in DOMAIN A |-> [j \in DOMAIN A |->
     RSum([k \in DOMAIN A |-> RMul(A[i][k], B[k][j])], 0, Size(A) - 1)]]

MatAdd(A, B) == [i \in DOMAIN A |-> [j \in DOMAIN A |-> RAdd(A[i][j], B[i][j])]]

MatSub(A, B) == [i \in DOMAIN A |-> [j \in DOMAIN A |-> RSub(A[i][j], B[i][j])]]

\* c * A for a scalar c.
Scale(c, A) == [i \in DOMAIN A |-> [j \in DOMAIN A |-> RMul(c, A[i][j])]]

\* scipy's A.power(p): every entry raised to the power p.
ElemPower(A, p) == [i \in DOMAIN A |-> [j \in DOMAIN A |-> RPow(A[i][j], p)]]

\* psi.dot(x) for a matrix psi and a vector x.
Dot(psi, x) ==
  [i \in DOMAIN psi |->
     RSum([k \in DOMAIN psi |-> RMul(psi[i][k], x[k])], 0, Size(psi) - 1)]

\* np.abs(x) for a vector x.
VecAbs(x) == [i \in DOMAIN x |-> RAbs(x[i])]

\* np.sum(np.power(x, q)) for a vector x.
SumPower(x, q) == RSum([i \in DOMAIN x |-> RPow(x[i], q)], 0, Size(x) - 1)

\* -------------------------------------------- NormalizedOperator ----
\* 1.0/graph.degree[node] divides by zero for a node of degree 0.
DInverseRaises(graph) == \E node \in Nodes(graph) : Degree(graph, node) = 0

CreateDInverse(graph) ==
  [i \in Nodes(graph) |-> [j \in Nodes(graph) |->
     IF i = j THEN RInv(Degree(graph, i)) ELSE Zero]]

\* Mutant of GetNormalizedAdjacency: A.dot(D_inverse), which scales columns.
GetNormalizedAdjacency_ColumnScaled(graph) ==
  LET A == Adjacency(graph)
      D_inverse == CreateDInverse(graph)
  IN Scale(Half, MatAdd(Identity(graph.n), MatMul(A, D_inverse)))

GetNormalizedAdjacency(graph) ==
  LET A == Adjacency(graph)
      D_inverse == CreateDInverse(graph)
  IN Scale(Half, MatAdd(Identity(graph.n), MatMul(D_inverse, A)))

\* ---------------------------------------------------- WaveletBank ----
\* The Python list Psi; Psi[k] of the code is CalculateWavelets(..)[k + 1].
CalculateWavelets(A_hat, ord) ==
  [k \in 1 .. (ord + 1) |->
     MatSub(ElemPower(A_hat, Pow2(k - 1)), ElemPower(A_hat, Pow2(k)))]

\* ------------------------------------------------- node features ----
\* Number of feature columns of X.
NumCols == 3

CreateNodeFeatureMatrix(graph) ==
  [node \in Nodes(graph) |->
     [col \in 0 .. (NumCols - 1) |->
        CASE col = 0 -> Log(Degree(graph, node) + 1)
          [] col = 1 -> Rat(Eccentricity(graph, node))
          [] OTHER -> Clustering(graph, node)]]

\* np.abs(X)
MatAbs(X) == [i \in DOMAIN X |-> [c \in DOMAIN X[i] |-> RAbs(X[i][c])]]

\* np.abs(X[:, col])
Column(X, col) == [i \in DOMAIN X |-> RAbs(X[i][col])]

\* X.shape[1]
Shape1(X) == IF DOMAIN X = {} THEN 0 ELSE Size(X[0])

\* ------------------------------------------------ MomentAggregator ----
\* Mutant of MomentLoop: the range includes its upper end.
RECURSIVE MomentLoop_Inclusive(_, _, _)
MomentLoop_Inclusive(x, lo, hi) ==
  IF lo > hi THEN <<>>
  ELSE <<SumPower(x, lo)>> \o MomentLoop_Inclusive(x, lo + 1, hi)

\* for power in range(lo, hi): features.append(np.sum(np.power(x, power)))
RECURSIVE MomentLoop(_, _, _)
MomentLoop(x, lo, hi) ==
  IF lo >= hi THEN <<>>
  ELSE <<SumPower(x, lo)>> \o MomentLoop(x, lo + 1, hi)

RECURSIVE ZeroOrderCols(_, _, _)
ZeroOrderCols(X, col, ord) ==
  IF col >= Shape1(X) THEN <<>>
  ELSE MomentLoop(Column(X, col), 1, ord + 1) \o ZeroOrderCols(X, col + 1, ord)

GetZeroOrderFeatures(X, ord) == Reshape1(ZeroOrderCols(MatAbs(X), 0, ord))

\* for psi in Psi: ... for q in range(1, moments): ...
RECURSIVE FirstOrderPsi(_, _, _, _)
FirstOrderPsi(Psi, x, k, mom) ==
  IF k > Len(Psi) THEN <<>>
  ELSE MomentLoop(VecAbs(Dot(Psi[k], x)), 1, mom) \o FirstOrderPsi(Psi, x, k + 1, mom)

RECURSIVE FirstOrderCols(_, _, _, _)
FirstOrderCols(Psi, X, col, mom) ==
  IF col >= Shape1(X) THEN <<>>
  ELSE FirstOrderPsi(Psi, Column(X, col), 1, mom)
       \o FirstOrderCols(Psi, X, col + 1, mom)

GetFirstOrderFeatures(Psi, X, mom) == Reshape1(FirstOrderCols(Psi, MatAbs(X), 0, mom))

\* Mutant of Cascade: the higher-indexed wavelet is applied first.
Cascade_Swapped(Psi, x, i, j) ==
  VecAbs(Dot(Psi[i + 1], VecAbs(Dot(Psi[j + 1], x))))

\* filtered_x = np.abs(psi_j_prime.dot(np.abs(psi_j.dot(x)))) with
\* psi_j = Psi[i], psi_j_prime = Psi[j].
Cascade(Psi, x, i, j) == VecAbs(Dot(Psi[j + 1], VecAbs(Dot(Psi[i + 1], x))))

\* for j in range(i+1, order): ...
RECURSIVE SecondOrderJ(_, _, _, _, _, _)
SecondOrderJ(Psi, x, i, j, ord, mom) ==
  IF j >= ord THEN <<>>
  ELSE MomentLoop(VecAbs(Cascade(Psi, x, i, j)), 1, mom)
       \o SecondOrderJ(Psi, x, i, j + 1, ord, mom)

\* for i in range(order-1): ...
RECURSIVE SecondOrderI(_, _, _, _, _)
SecondOrderI(Psi, x, i, ord, mom) ==
  IF i >= ord - 1 THEN <<>>
  ELSE SecondOrderJ(Psi, x, i, i + 1, ord, mom)
       \o SecondOrderI(Psi, x, i + 1, ord, mom)

RECURSIVE SecondOrderCols(_, _, _, _, _)
SecondOrderCols(Psi, X, col, ord, mom) ==
  IF col >= Shape1(X) THEN <<>>
  ELSE SecondOrderI(Psi, Column(X, col), 0, ord, mom)
       \o SecondOrderCols(Psi, X, col + 1, ord, mom)

GetSecondOrderFeatures(Psi, X, ord, mom) ==
  Reshape1(SecondOrderCols(Psi, MatAbs(X), 0, ord, mom))

\* ---------------------------------------------- EmbeddingPipeline ----
NoError == "none"

\* The locals of one call of _calculate_geoscattering and what it raises.
NoGraph == [n |-> 0, edges |-> {}]

NoLocals ==
  [graph |-> NoGraph, err |-> NoError, A_hat |-> <<>>, Psi |-> <<>>, X |-> <<>>,
   zero_order_features |-> EmptyArray, first_order_features |-> EmptyArray,
   second_order_features |-> EmptyArray, features |-> EmptyArray]

CalculateGeoscattering(graph, ord, mom) ==
  IF DInverseRaises(graph)
  THEN [NoLocals EXCEPT !.graph = graph, !.err = "ZeroDivisionError"]
  ELSE
    LET A_hat == GetNormalizedAdjacency(graph)
        Psi == CalculateWavelets(A_hat, ord)
    IN IF EccentricityRaises(graph)
       THEN [NoLocals EXCEPT !.graph = graph, !.err = "NetworkXError",
                             !.A_hat = A_hat, !.Psi = Psi]
       ELSE
         LET X == CreateNodeFeatureMatrix(graph)
             zero_order_features == GetZeroOrderFeatures(X, ord)
             first_order_features == GetFirstOrderFeatures(Psi, X, mom)
             second_order_features == GetSecondOrderFeatures(Psi, X, ord, mom)
         IN [graph |-> graph, err |-> NoError, A_hat |-> A_hat, Psi |-> Psi, X |-> X,
             zero_order_features |-> zero_order_features,
             first_order_features |-> first_order_features,
             second_order_features |-> second_order_features,
             features |-> Concatenate1(zero_order_features, first_order_features,
                                       second_order_features)]

\* --------------------------------------------------------- inputs ----
\* The graphs handed to fit: a single edge, a path (degrees 1, 2, 1), a graph
\* with an isolated node, and two disjoint edges (no isolated node, but
\* disconnected).
K2 == [n |-> 2, edges |-> {{0, 1}}]
P3 == [n |-> 3, edges |-> {{0, 1}, {1, 2}}]
IsolatedNode == [n |-> 3, edges |-> {{0, 1}}]
TwoK2 == [n |-> 4, edges |-> {{0, 1}, {2, 3}}]
GraphPool == {K2, P3, IsolatedNode, TwoK2}

Batches == UNION {[1 .. k -> GraphPool] : k \in 0 .. MaxBatch}

\* What _calculate_geoscattering does on every graph of the pool under every
\* (order, moments) of Spec, evaluated once.
CallTable ==
  [graph \in GraphPool, ord \in 0 .. MaxOrder, mom \in 0 .. MaxMoments |->
     CalculateGeoscattering(graph, ord, mom)]

\* ---------------------------------------------------------- state ----
VARIABLES
  order,       \* self.order
  moments,     \* self.moments
  _embedding,  \* self._embedding: [set |-> attribute exists, rows |-> the list]
  pc,          \* "idle", or "fitting" inside the list comprehension of fit,
               \* or the next line of _calculate_geoscattering in SpecBlocks
  batch,       \* the argument graphs of the fit in progress
  idx,         \* number of graphs its comprehension has finished
  partial,     \* the list the comprehension is building
  progress,    \* the counter of the tqdm bar of the current (or last) fit
  stdout,      \* the shapes printed by _calculate_geoscattering during that fit
  trace,       \* positions in graphs handed to _calculate_geoscattering so far
  raised,      \* the exception that ended the last fit, or NoError
  returned,    \* what the last get_embedding gave its caller
  fitted,      \* the batch of the last fit that completed
  frame        \* the locals of the latest _calculate_geoscattering of this fit

vars ==
  <<order, moments, _embedding, pc, batch, idx, partial, progress, stdout,
    trace, raised, returned, fitted, frame>>

Nothing == [kind |-> "none", value |-> EmptyArray]

\* State after GeoScattering(order, moments): no _embedding attribute yet.
Init ==
  /\ order \in 0 .. MaxOrder
  /\ moments \in 0 .. MaxMoments
  /\ _embedding = [set |-> FALSE, rows |-> <<>>]
  /\ pc = "idle"
  /\ batch = <<>>
  /\ idx = 0
  /\ partial = <<>>
  /\ progress = 0
  /\ stdout = <<>>
  /\ trace = <<>>
  /\ raised = NoError
  /\ returned = Nothing
  /\ fitted = [set |-> FALSE, batch |-> <<>>]
  /\ frame = NoLocals

\* Estimator._check_graphs: every graph is indexed 0..n-1.
CheckGraphs(graphs) ==
  \A k \in 1 .. Len(graphs) : \A e \in graphs[k].edges : e \subseteq Nodes(graphs[k])

\* Mutant of Position: the list is walked from its end.
Position_Reversed(graphs, done) == Len(graphs) - 1 - done

\* The position in graphs that the iteration over tqdm(graphs) yields after
\* done graphs have been finished.
Position(graphs, done) == done

\* fit(graphs) up to the start of the list comprehension.
Fit(graphs) ==
  /\ pc = "idle"
  /\ CheckGraphs(graphs)
  /\ pc' = "fitting"
  /\ batch' = graphs
  /\ idx' = 0
  /\ partial' = <<>>
  /\ progress' = 0
  /\ stdout' = <<>>
  /\ trace' = <<>>
  /\ raised' = NoError
  /\ returned' = Nothing
  /\ frame' = NoLocals
  /\ UNCHANGED <<order, moments, _embedding, fitted>>

\* Mutant of FitStep: the new row is put in front of the list.
FitStep_Prepend ==
  /\ pc = "fitting"
  /\ idx < Len(batch)
  /\ LET pos == Position(batch, idx)
         call == CallTable[batch[pos + 1], order, moments]
     IN IF call.err /= NoError
           THEN /\ raised' = call.err
                /\ pc' = "idle"
                /\ partial' = <<>>
                /\ batch' = <<>>
                /\ idx' = 0
                /\ trace' = <<>>
                /\ frame' = NoLocals
                /\ UNCHANGED <<progress, stdout>>
           ELSE /\ partial' = <<call.features>> \o partial
                /\ stdout' = Append(stdout, call.features.shape)
                /\ idx' = idx + 1
                /\ progress' = progress + 1
                /\ frame' = call
                /\ trace' = Append(trace, pos)
                /\ UNCHANGED <<raised, pc, batch>>
  /\ UNCHANGED <<order, moments, _embedding, returned, fitted>>

\* Mutant of FitStep: a graph that raises is skipped and the fit goes on.
FitStep_SkipBadGraph ==
  /\ pc = "fitting"
  /\ idx < Len(batch)
  /\ LET pos == Position(batch, idx)
         call == CallTable[batch[pos + 1], order, moments]
     IN IF call.err /= NoError
           THEN /\ idx' = idx + 1
                /\ progress' = progress + 1
                /\ frame' = call
                /\ trace' = Append(trace, pos)
                /\ UNCHANGED <<raised, pc, partial, stdout, batch>>
           ELSE /\ partial' = Append(partial, call.features)
                /\ stdout' = Append(stdout, call.features.shape)
                /\ idx' = idx + 1
                /\ progress' = progress + 1
                /\ frame' = call
                /\ trace' = Append(trace, pos)
                /\ UNCHANGED <<raised, pc, batch>>
  /\ UNCHANGED <<order, moments, _embedding, returned, fitted>>

\* One iteration of the comprehension: the next graph of tqdm(graphs) goes
\* through _calculate_geoscattering; its row is appended, or its exception
\* leaves fit, and the list under construction and the other locals of fit
\* are dropped.
FitStep ==
  /\ pc = "fitting"
  /\ idx < Len(batch)
  /\ LET pos == Position(batch, idx)
         call == CallTable[batch[pos + 1], order, moments]
     IN IF call.err /= NoError
           THEN /\ raised' = call.err
                /\ pc' = "idle"
                /\ partial' = <<>>
                /\ batch' = <<>>
                /\ idx' = 0
                /\ trace' = <<>>
                /\ frame' = NoLocals
                /\ UNCHANGED <<progress, stdout>>
           ELSE /\ partial' = Append(partial, call.features)
                /\ stdout' = Append(stdout, call.features.shape)
                /\ idx' = idx + 1
                /\ progress' = progress + 1
                /\ frame' = call
                /\ trace' = Append(trace, pos)
                /\ UNCHANGED <<raised, pc, batch>>
  /\ UNCHANGED <<order, moments, _embedding, returned, fitted>>

\* Mutant of FitReturn: the rows are added to those already stored.
FitReturn_Extend ==
  /\ pc = "fitting"
  /\ idx = Len(batch)
  /\ _embedding' = [set |-> TRUE, rows |-> _embedding.rows \o partial]
  /\ fitted' = [set |-> TRUE, batch |-> batch]
  /\ partial' = <<>>
  /\ batch' = <<>>
  /\ idx' = 0
  /\ trace' = <<>>
  /\ frame' = NoLocals
  /\ pc' = "idle"
  /\ UNCHANGED <<order, moments, progress, stdout, raised, returned>>

\* The comprehension is exhausted: self._embedding = [...], and fit returns.
FitReturn ==
  /\ pc = "fitting"
  /\ idx = Len(batch)
  /\ _embedding' = [set |-> TRUE, rows |-> partial]
  /\ fitted' = [set |-> TRUE, batch |-> batch]
  /\ partial' = <<>>
  /\ batch' = <<>>
  /\ idx' = 0
  /\ trace' = <<>>
  /\ frame' = NoLocals
  /\ pc' = "idle"
  /\ UNCHANGED <<order, moments, progress, stdout, raised, returned>>

\* get_embedding(): np.array(self._embedding), AttributeError before any fit
\* has completed.
GetEmbedding ==
  /\ pc = "idle"
  /\ returned = Nothing
  /\ returned' = IF _embedding.set
                 THEN [kind |-> "array", value |-> NpArray(_embedding.rows)]
                 ELSE [kind |-> "AttributeError", value |-> EmptyArray]
  /\ UNCHANGED <<order, moments, _embedding, pc, batch, idx, partial, progress,
                 stdout, trace, raised, fitted, frame>>

Next ==
  \/ \E graphs \in Batches : Fit(graphs)
  \/ FitStep
  \/ FitReturn
  \/ GetEmbedding

Spec == Init /\ [][Next]_vars

\* ------------------------------------------------------ SpecBlocks ----
\* _calculate_geoscattering from line 116 on, for a wavelet bank Psi and a
\* feature matrix X given as small integer matrices on two nodes.
Mat2(a, b, c, d) ==
  [i \in 0 .. 1 |-> [j \in 0 .. 1 |->
     Rat(IF i = 0 THEN (IF j = 0 THEN a ELSE b) ELSE (IF j = 0 THEN c ELSE d))]]

PsiPool == {Mat2(1, -1, 0, 1), Mat2(0, 1, -2, 1), Mat2(1, 1, 1, -1)}

Row3(a, b, c) == [col \in 0 .. 2 |-> Rat(IF col = 0 THEN a ELSE IF col = 1 THEN b ELSE c)]

XPool ==
  {[i \in 0 .. 1 |-> IF i = 0 THEN Row3(1, 2, 0) ELSE Row3(2, 1, 1)],
   [i \in 0 .. 1 |-> IF i = 0 THEN Row3(-1, 0, 2) ELSE Row3(1, 3, 0)]}

InitBlocks ==
  /\ order \in 0 .. MaxBlockOrder
  /\ moments \in 0 .. MaxBlockMoments
  /\ \E Psi \in [1 .. (order + 1) -> PsiPool], X \in XPool :
       frame = [NoLocals EXCEPT !.Psi = Psi, !.X = X]
  /\ pc = "zero_order"
  /\ _embedding = [set |-> FALSE, rows |-> <<>>]
  /\ batch = <<>>
  /\ idx = 0
  /\ partial = <<>>
  /\ progress = 0
  /\ stdout = <<>>
  /\ trace = <<>>
  /\ raised = NoError
  /\ returned = Nothing
  /\ fitted = [set |-> FALSE, batch |-> <<>>]

UnchangedEstimator ==
  UNCHANGED <<order, moments, _embedding, batch, idx, partial, progress, trace,
              raised, returned, fitted>>

\* zero_order_features = self._get_zero_order_features(X)
ZeroOrderStep ==
  /\ pc = "zero_order"
  /\ frame' = [frame EXCEPT
                 !.zero_order_features = GetZeroOrderFeatures(frame.X, order)]
  /\ pc' = "first_order"
  /\ UNCHANGED stdout
  /\ UnchangedEstimator

\* first_order_features = self._get_first_order_features(Psi, X)
FirstOrderStep ==
  /\ pc = "first_order"
  /\ frame' = [frame EXCEPT
                 !.first_order_features =
                    GetFirstOrderFeatures(frame.Psi, frame.X, moments)]
  /\ pc' = "second_order"
  /\ UNCHANGED stdout
  /\ UnchangedEstimator

\* second_order_features = self._get_second_order_features(Psi, X)
SecondOrderStep ==
  /\ pc = "second_order"
  /\ frame' = [frame EXCEPT
                 !.second_order_features =
                    GetSecondOrderFeatures(frame.Psi, frame.X, order, moments)]
  /\ pc' = "concatenate"
  /\ UNCHANGED stdout
  /\ UnchangedEstimator

\* features = np.concatenate([...], axis=1); print(features.shape); return
ConcatenateStep ==
  /\ pc = "concatenate"
  /\ LET features == Concatenate1(frame.zero_order_features,
                                  frame.first_order_features,
                                  frame.second_order_features)
     IN /\ frame' = [frame EXCEPT !.features = features]
        /\ stdout' = Append(stdout, features.shape)
  /\ pc' = "return"
  /\ UnchangedEstimator

NextBlocks == ZeroOrderStep \/ FirstOrderStep \/ SecondOrderStep \/ ConcatenateStep

SpecBlocks == InitBlocks /\ [][NextBlocks]_vars

\* ------------------------------------------------------ properties ----
\* Matrix power by repeated self-multiplication, p >= 1.
RECURSIVE MatPow(_, _)
MatPow(A, p) == IF p = 1 THEN A ELSE MatMul(A, MatPow(A, p - 1))

\* Sum of the matrices Psi[lo..hi] of a non-empty list.
RECURSIVE MatSum(_, _, _)
MatSum(Psi, lo, hi) ==
  IF lo = hi THEN Psi[lo] ELSE MatAdd(Psi[lo], MatSum(Psi, lo + 1, hi))

HasIsolatedNode(graph) == \E v \in Nodes(graph) : \A e \in graph.edges : v \notin e

IsDisconnected(graph) ==
  \E S \in SUBSET Nodes(graph) :
    /\ S /= {}
    /\ S /= Nodes(graph)
    /\ \A e \in graph.edges : e \subseteq S \/ e \cap S = {}

Bad(graph) == HasIsolatedNode(graph) \/ IsDisconnected(graph)

\* A call of _calculate_geoscattering has returned its row into frame.
FrameReturned == frame.graph /= NoGraph /\ frame.err = NoError

\* A call of _calculate_geoscattering has got past line 114.
WaveletsComputed == frame.graph /= NoGraph /\ frame.err /= "ZeroDivisionError"

\* The row _calculate_geoscattering returns for graph under (order, moments).
RowOf(graph) == CallTable[graph, order, moments].features

\* Entries (k-1)*F+1 .. k*F of the data of a stacked array whose last axis is F.
Slice(array, k) ==
  LET F == array.shape[Len(array.shape)]
  IN SubSeq(array.data, (k - 1) * F + 1, k * F)

Choose2(n) == (n * (n - 1)) \div 2

C2_EmbeddingIsMatrixOriginal ==
  (returned.kind = "array" /\ Len(fitted.batch) >= 1) =>
    returned.value.shape
      = <<Len(fitted.batch), Len(RowOf(fitted.batch[1]).data)>>

\* C3: row i of what fit builds, stores and get_embedding returns is the
\* feature row of graph i of that batch under (order, moments), and of
\* nothing else.
C3_RowDependsOnOwnGraph ==
  /\ \A k \in 1 .. Len(partial) : partial[k] = RowOf(batch[k])
  /\ _embedding.set =>
       /\ Len(_embedding.rows) = Len(fitted.batch)
       /\ \A k \in 1 .. Len(fitted.batch) : _embedding.rows[k] = RowOf(fitted.batch[k])
  /\ returned.kind = "array" =>
       \A k \in 1 .. Len(fitted.batch) :
         Slice(returned.value, k) = RowOf(fitted.batch[k]).data

\* C3 witness: a batch of two different graphs has been fitted and retrieved.
C3_Witness ==
  /\ returned.kind = "array"
  /\ Len(fitted.batch) = 2
  /\ RowOf(fitted.batch[1]) /= RowOf(fitted.batch[2])

C4Inv ==
  /\ raised /= NoError => pc = "idle" /\ partial = <<>>
  /\ pc = "fitting" => \A k \in 1 .. idx : ~Bad(batch[k])
  /\ \A k \in 1 .. Len(fitted.batch) : ~Bad(fitted.batch[k])

C4Step ==
  /\ (raised = NoError /\ raised' /= NoError) =>
       /\ pc = "fitting"
       /\ idx < Len(batch)
       /\ Bad(batch[idx + 1])
       /\ (raised' = "ZeroDivisionError") = HasIsolatedNode(batch[idx + 1])
       /\ pc' = "idle"
       /\ progress' = idx
       /\ stdout' = stdout
       /\ _embedding' = _embedding
       /\ fitted' = fitted
  /\ (pc = "fitting" /\ idx < Len(batch) /\ Bad(batch[idx + 1])) =>
       raised' /= NoError

\* C4: a fit whose batch holds a graph with a degree-0 node or a disconnected
\* graph raises at the first such graph: the rows built so far are dropped,
\* nothing of the batch is stored, no later graph is processed, and such a
\* batch never completes.
C4_FailFast == [](C4Inv) /\ [][C4Step]_vars

\* C4 witness: a fit raised on its second graph, after a row had been built,
\* with an embedding of an earlier batch in place.
C4_Witness ==
  /\ raised = "NetworkXError"
  /\ progress = 1
  /\ _embedding.set

\* C5 as stated: the k-th wavelet is A_hat^(2^k) - A_hat^(2^(k+1)) with matrix
\* powers (repeated self-multiplication), for k = 0..order.
C5_WaveletsOriginal ==
  WaveletsComputed =>
    /\ Len(frame.Psi) = order + 1
    /\ \A k \in 0 .. order :
         frame.Psi[k + 1] = MatSub(MatPow(frame.A_hat, Pow2(k)),
                                   MatPow(frame.A_hat, Pow2(k + 1)))

\* C6: for a graph whose nodes all have degree >= 1 the operator has 1/2 on
\* the diagonal, 1/(2*degree(i)) in row i at the neighbours of i and 0
\* elsewhere, and every row sums to 1.
C6_NormalizedAdjacency ==
  WaveletsComputed =>
    LET graph == frame.graph
    IN /\ DOMAIN frame.A_hat = Nodes(graph)
       /\ \A i \in Nodes(graph) :
            /\ DOMAIN frame.A_hat[i] = Nodes(graph)
            /\ \A j \in Nodes(graph) :
                 frame.A_hat[i][j] =
                   IF i = j THEN Half
                   ELSE IF {i, j} \in graph.edges
                        THEN RMul(Half, RInv(Degree(graph, i)))
                        ELSE Zero
            /\ RSum(frame.A_hat[i], 0, graph.n - 1) = One

\* C6 witness: the operator of the path 0-1-2, whose degrees differ.
C6_Witness == WaveletsComputed /\ frame.graph = P3

\* C7 as stated: the wavelets sum to A_hat^1 - A_hat^(2^(order+1)), powers
\* being the matrix powers of the wavelet definition.
C7_TelescopeOriginal ==
  WaveletsComputed =>
    MatSum(frame.Psi, 1, order + 1)
      = MatSub(MatPow(frame.A_hat, 1), MatPow(frame.A_hat, Pow2(order + 1)))

\* C8: within a fit the graphs go through _calculate_geoscattering one at a
\* time in list order 0, 1, 2, ..; the progress counter equals the number of
\* graphs finished, and is the batch size when the fit completes.
C8_Sequential ==
  /\ \A k \in 1 .. Len(trace) : trace[k] = k - 1
  /\ pc = "fitting" =>
       /\ Len(trace) = idx
       /\ progress = idx
       /\ Len(partial) = idx
       /\ Len(stdout) = idx
  /\ progress = Len(stdout)
  /\ (pc = "idle" /\ raised = NoError) =>
       /\ progress = Len(fitted.batch)
       /\ Len(stdout) = Len(_embedding.rows)

\* C8 witness: both graphs of a batch of two have been processed.
C8_Witness == pc = "fitting" /\ idx = 2 /\ trace = <<0, 1>> /\ progress = 2

\* The second-order block is in frame.
SecondComputed == pc \in {"concatenate", "return"}

\* Number of pairs (i', j') with i' < j' < ord that precede (i, j).
PairRank(i, j, ord) == i * (ord - 1) - Choose2(i) + (j - i - 1)

\* sum over u of | sum over v of Psi_j[u][v] * | sum over w of Psi_i[v][w] * |X[w][col]| | | ^ q
CascadeMoment(Psi, X, col, i, j, q) ==
  LET n == Size(X)
      inner == [v \in 0 .. (n - 1) |->
                  RAbs(RSum([w \in 0 .. (n - 1) |->
                               RMul(Psi[i + 1][v][w], RAbs(X[w][col]))], 0, n - 1))]
      outer == [u \in 0 .. (n - 1) |->
                  RAbs(RSum([v \in 0 .. (n - 1) |->
                               RMul(Psi[j + 1][u][v], inner[v])], 0, n - 1))]
  IN RSum([u \in 0 .. (n - 1) |-> RPow(outer[u], q)], 0, n - 1)

\* C9: the second-order block has one entry for every column, every pair
\* 0 <= i < j <= order-1 and every q in 1..moments-1, nested in that order,
\* and the entry is sum(|Psi_j . |Psi_i . x||^q); Psi_order is not used.
C9_SecondOrderBlock ==
  SecondComputed =>
    LET block == frame.second_order_features
        m1 == Max(moments - 1, 0)
        pairs == Choose2(order)
    IN /\ block.shape = <<1, 3 * pairs * m1>>
       /\ Len(block.data) = 3 * pairs * m1
       /\ \A col \in 0 .. 2, i \in 0 .. (order - 1), j \in 0 .. (order - 1),
            q \in 1 .. (moments - 1) :
            i < j =>
              block.data[col * pairs * m1 + PairRank(i, j, order) * m1 + q]
                = CascadeMoment(frame.Psi, frame.X, col, i, j, q)

\* C9 witness: three pairs and two moments, on wavelets whose order of
\* application matters.
C9_Witness ==
  /\ SecondComputed
  /\ order = 3
  /\ moments = 3
  /\ CascadeMoment(frame.Psi, frame.X, 0, 0, 1, 1)
       /= CascadeMoment(frame.Psi, frame.X, 0, 1, 0, 1)
  /\ frame.Psi[4] /= frame.Psi[1]

C10Inv ==
  /\ _embedding.set = fitted.set
  /\ Len(_embedding.rows) = Len(fitted.batch)
  /\ returned.kind = "AttributeError" => ~fitted.set
  /\ returned.kind = "array" =>
       /\ fitted.set
       /\ returned.value.shape[1] = Len(fitted.batch)
       /\ returned.value.data
            = FlatData([k \in 1 .. Len(fitted.batch) |-> RowOf(fitted.batch[k])])

C10Step ==
  /\ order' = order
  /\ moments' = moments
  /\ _embedding' /= _embedding =>
       /\ pc = "fitting"
       /\ pc' = "idle"
       /\ raised' = NoError
       /\ Len(partial) = Len(batch)
       /\ _embedding' = [set |-> TRUE, rows |-> partial]

\* C10: only a fit that completes writes _embedding, and it writes exactly
\* the rows of its own batch; a fit that raises leaves _embedding, order and
\* moments as they were, so get_embedding gives the rows of the last completed
\* fit, or raises when none has completed.
C10_StoredEmbedding == [](C10Inv) /\ [][C10Step]_vars

\* C10 witness: get_embedding after a failed fit returns the earlier batch.
C10_Witness ==
  /\ raised /= NoError
  /\ returned.kind = "array"
  /\ Len(fitted.batch) >= 1
  /\ progress < Len(fitted.batch)

====
